---- MODULE Spec2Model ----
(***************************************************************************)
(* The reference-counted SharedPtr of src/assignment.cpp: its ControlBlock *)
(* (atomic count, type-erased deleter) and the handle operations built on  *)
(* it.  Handles live in numbered storage slots; control blocks and managed *)
(* objects are heap cells with an allocation state.                        *)
(*                                                                         *)
(* Counts are size_t values.  They are kept as integers: a value v stands  *)
(* for v modulo 2^64, so that 0 - 1 is written -1 (SIZE_MAX); the code     *)
(* only compares counts for equality with 0 and 1, which this preserves.   *)
(***************************************************************************)
EXTENDS Integers, FiniteSets, Sequences, TLC

\* ------------------------------------------------------------------ bounds
NumHandles == 2     \* storage slots for handles in the sequential program
NumBlocks  == 2     \* control blocks the heap can hand out
MaxGarbage == 2     \* a read of freed memory yields any count in 0..MaxGarbage
MaxRuns    == 2     \* deleter runs / frees of one block are counted up to here
NumThreads == 2     \* worker threads beside the main thread
MaxIter    == 2     \* copies each worker thread makes (the test's loop count)
MaxCount   == 5     \* counts the counter is taken to when called on its own

NULL == 0

Slots  == 1..NumHandles
Blocks == 1..NumBlocks
\* Addresses are opaque.  Every object is made to be handed to a handle, so
\* the heap holds as many objects as control blocks.
Objs   == Blocks
GarbageCount == 0..MaxGarbage
DeleterFns == {"default_delete", "custom"}

VARIABLES
    live,             \* slot -> a handle object is constructed there
    m_control_block,  \* slot -> SharedPtr::m_control_block (NULL or a block)
    m_ptr,            \* slot -> SharedPtr::m_ptr (NULL or an object address)
    blk,              \* block -> "unalloc" | "live" | "freed"
    m_count,          \* block -> ControlBlock::m_count
    m_deleter,        \* block -> ControlBlock::m_deleter, the bound closure
    deleter_runs,     \* block -> times delete_owned() ran m_deleter
    frees,            \* block -> times `delete m_control_block` hit the block
    obj,              \* object -> "unalloc" | "alive" | "deleted"
    ub,               \* kinds of undefined behaviour executed so far
    crashed,          \* the process was terminated by a fault
    last,             \* the operation that produced this state
    pc,               \* thread -> position inside a handle operation
    cur,              \* thread -> slot the thread's operation works on
    prior,            \* thread -> count_prior_to_decrement of its reset()
    iter,             \* thread -> copies the thread may still make
    mode              \* threaded run: "join" | "race" ("seq" when sequential)

hvars == <<live, m_control_block, m_ptr, blk, m_count, m_deleter,
           deleter_runs, frees, obj, ub, crashed>>
tvars == <<pc, cur, prior, iter, mode>>
vars  == <<live, m_control_block, m_ptr, blk, m_count, m_deleter,
           deleter_runs, frees, obj, ub, crashed, last, pc, cur, prior,
           iter, mode>>

\* The program state as one value, so that the methods below can be composed
\* (operator= is a destructor call followed by a constructor call).
S == [live |-> live, m_control_block |-> m_control_block, m_ptr |-> m_ptr,
      blk |-> blk, m_count |-> m_count, m_deleter |-> m_deleter,
      deleter_runs |-> deleter_runs, frees |-> frees, obj |-> obj,
      ub |-> ub, crashed |-> crashed]

Put(s) ==
    /\ live' = s.live
    /\ m_control_block' = s.m_control_block
    /\ m_ptr' = s.m_ptr
    /\ blk' = s.blk
    /\ m_count' = s.m_count
    /\ m_deleter' = s.m_deleter
    /\ deleter_runs' = s.deleter_runs
    /\ frees' = s.frees
    /\ obj' = s.obj
    /\ ub' = s.ub
    /\ crashed' = s.crashed

Bump(n) == IF n < MaxRuns THEN n + 1 ELSE n

\* Undefined behaviour of kind k executed in state s: the build either
\* faults there, or carries on with the state `cont`.
Undefined(s, k, cont) ==
    { [s EXCEPT !.ub = @ \cup {k}, !.crashed = TRUE],
      [cont EXCEPT !.ub = @ \cup {k}] }

\* -------------------------------------------------------- ControlBlock
\* ControlBlock::ControlBlock(erased_deleter_t): m_count{1}, m_deleter bound.
\* make_deleter(deleter, ptr) is the pair <<deleter, ptr>>.
make_deleter(fn, p) == [fn |-> fn, ptr |-> p]

CanAllocate(s) == \E b \in DOMAIN s.blk : s.blk[b] = "unalloc"
\* new ControlBlock{...} throws std::bad_alloc when the heap has no block
\* left to hand out.
BadAlloc(s) == ~CanAllocate(s)
FreshBlock(s) ==
    CHOOSE b \in DOMAIN s.blk :
        /\ s.blk[b] = "unalloc"
        /\ \A c \in DOMAIN s.blk : s.blk[c] = "unalloc" => b <= c

NewControlBlock(s, b, deleter) ==
    [s EXCEPT !.blk[b] = "live", !.m_count[b] = 1, !.m_deleter[b] = deleter,
              !.deleter_runs[b] = 0, !.frees[b] = 0]

\* increment_count(): ++m_count through the pointer b.
increment_count(s, b) ==
    IF b = NULL THEN Undefined(s, "null_deref", s)
    ELSE IF s.blk[b] # "live" THEN Undefined(s, "use_after_free", s)
    ELSE { [s EXCEPT !.m_count[b] = @ + 1] }

\* decrement_count(): ++m_count through the pointer b, as the source has it.
decrement_count(s, b) ==
    IF b = NULL THEN Undefined(s, "null_deref", s)
    ELSE IF s.blk[b] # "live" THEN Undefined(s, "use_after_free", s)
    ELSE { [s EXCEPT !.m_count[b] = @ + 1] }

\* fetch_sub_1() with the slip of decrement_count(), which adds one.
fetch_sub_1_adds(s, b) ==
    { [s |-> [s EXCEPT !.m_count[b] = @ + 1], prior |-> s.m_count[b]] }

\* fetch_sub_1(): m_count.fetch_sub(1); the results are pairs of the state
\* after and the value returned (the count before the subtraction).
fetch_sub_1(s, b) ==
    IF s.blk[b] # "live"
    THEN UNION { { [s |-> t, prior |-> g] :
                     t \in Undefined(s, "use_after_free", s) } :
                 g \in GarbageCount }
    ELSE { [s |-> [s EXCEPT !.m_count[b] = @ - 1], prior |-> s.m_count[b]] }

\* The bound closure: deleter(ptr).  Deleting a null pointer does nothing.
RunDeleter(s, d) ==
    IF d.ptr = NULL THEN { s }
    ELSE IF s.obj[d.ptr] = "alive"
         THEN { [s EXCEPT !.obj[d.ptr] = "deleted"] }
         ELSE Undefined(s, "double_delete", s)

\* delete_owned(): m_deleter().
delete_owned(s, b) ==
    LET ran == [s EXCEPT !.deleter_runs[b] = Bump(@)] IN
    IF s.blk[b] # "live"
    THEN UNION { IF t.crashed THEN { t } ELSE RunDeleter(t, s.m_deleter[b]) :
                 t \in Undefined(s, "use_after_free", ran) }
    ELSE RunDeleter(ran, s.m_deleter[b])

\* delete m_control_block.
DeleteBlock(s, b) ==
    LET gone == [s EXCEPT !.blk[b] = "freed", !.frees[b] = Bump(@)] IN
    IF s.blk[b] # "live" THEN Undefined(s, "double_free", gone)
    ELSE { gone }

\* get_count().  A freed block reads as anything.
get_count(s, b) ==
    IF s.blk[b] = "live" THEN { s.m_count[b] } ELSE GarbageCount

\* --------------------------------------------------------------- SharedPtr
\* Each method maps a state to the set of states it can end in.  Of the
\* outcomes of one call, those that faulted end the method; the next call is
\* made in the others.
Faulted(states) == { t \in states : t.crashed }
Going(states)   == { t \in states : ~t.crashed }

SetFields(s, h, b, p) ==
    [s EXCEPT !.m_control_block[h] = b, !.m_ptr[h] = p]

get(s, h) == s.m_ptr[h]

use_count(s, h) ==
    IF s.m_control_block[h] # NULL THEN get_count(s, s.m_control_block[h])
    ELSE { 0 }

\* void reset() noexcept
reset(s, h) ==
    LET b == s.m_control_block[h] IN
    IF b # NULL
    THEN UNION {
           IF r.s.crashed THEN { r.s }
           ELSE IF 1 = r.prior
                THEN LET deleted == delete_owned(r.s, b)
                         freed == Faulted(deleted) \cup
                             UNION { DeleteBlock(t, b) : t \in Going(deleted) }
                     IN  Faulted(freed) \cup
                         { SetFields(t, h, NULL, NULL) : t \in Going(freed) }
                ELSE { r.s } :
           r \in fetch_sub_1(s, b) }
    ELSE { s }

\* SharedPtr() / SharedPtr(std::nullptr_t)
EmptyCtor(s, h) ==
    { SetFields([s EXCEPT !.live[h] = TRUE], h, NULL, NULL) }

\* SharedPtr(ptr_t instance, deleter_t deleter)
OwningCtor(s, h, p, fn) ==
    LET b == FreshBlock(s) IN
    { SetFields(NewControlBlock([s EXCEPT !.live[h] = TRUE], b,
                                make_deleter(fn, p)), h, b, p) }

\* SharedPtr(const SharedPtr& other)
CopyCtor(s, h, other) ==
    LET init == SetFields([s EXCEPT !.live[h] = TRUE], h,
                          s.m_control_block[other], s.m_ptr[other])
    IN  increment_count(init, init.m_control_block[h])

\* A move constructor that shares the block like the copy constructor.
MoveCtor_copies(s, h, other) == CopyCtor(s, h, other)

\* SharedPtr(SharedPtr&& other)
MoveCtor(s, h, other) ==
    LET init == SetFields([s EXCEPT !.live[h] = TRUE], h,
                          s.m_control_block[other], s.m_ptr[other])
    IN  { SetFields(init, other, NULL, NULL) }

\* SharedPtr<const T>(const SharedPtr<T>& other)
ConstCopyCtor(s, h, other) ==
    LET init == SetFields([s EXCEPT !.live[h] = TRUE], h,
                          s.m_control_block[other], s.m_ptr[other])
    IN  increment_count(init, init.m_control_block[h])

\* SharedPtr<const T>(SharedPtr<T>&& other)
ConstMoveCtor(s, h, other) ==
    LET init == SetFields([s EXCEPT !.live[h] = TRUE], h,
                          s.m_control_block[other], s.m_ptr[other])
    IN  { SetFields(init, other, NULL, NULL) }

\* ~SharedPtr(): reset(), after which the storage holds no handle.
Dtor(s, h) ==
    LET done == reset(s, h)
    IN  Faulted(done) \cup
        { SetFields([t EXCEPT !.live[h] = FALSE], h, NULL, NULL) :
            t \in Going(done) }

\* operator==(lhs, rhs)
Equal(s, lhs, rhs) == get(s, lhs) = get(s, rhs)

\* SharedPtr& operator=(std::nullptr_t)
AssignNullptr(s, h) == reset(s, h)

\* operator=(ptr_t) with the release of the old block moved in front of the
\* allocation of the new one.
AssignPtr_release_first(s, h, p) ==
    IF get(s, h) # p
    THEN LET released == reset(s, h)
         IN  Faulted(released) \cup
             { IF BadAlloc(t) THEN t
               ELSE LET b == FreshBlock(t)
                    IN  SetFields(NewControlBlock(t, b,
                            make_deleter("default_delete", p)), h, b, p) :
               t \in Going(released) }
    ELSE { s }

\* operator=(ptr_t) without its test that the pointer differs from get().
AssignPtr_unguarded(s, h, p) ==
    IF BadAlloc(s) THEN { s }
    ELSE LET b == FreshBlock(s)
             fresh == NewControlBlock(s, b, make_deleter("default_delete", p))
             released == reset(fresh, h)
         IN  Faulted(released) \cup
             { SetFields(t, h, b, p) : t \in Going(released) }

\* SharedPtr& operator=(ptr_t ptr).  When new control_block_t{...} throws,
\* operator= is left at that point.
AssignPtr(s, h, p) ==
    IF get(s, h) # p
    THEN IF BadAlloc(s) THEN { s }
         ELSE LET b == FreshBlock(s)
                  fresh == NewControlBlock(s, b,
                               make_deleter("default_delete", p))
                  released == reset(fresh, h)
              IN  Faulted(released) \cup
                  { SetFields(t, h, b, p) : t \in Going(released) }
    ELSE { s }

\* operator=(const SharedPtr&) without its test for self-assignment.
AssignHandle_unguarded(s, h, other) ==
    LET destroyed == Dtor(s, h)
    IN  Faulted(destroyed) \cup
        UNION { CopyCtor(t, h, other) : t \in Going(destroyed) }

\* SharedPtr& operator=(const SharedPtr& other)
AssignHandle(s, h, other) ==
    IF ~Equal(s, h, other)
    THEN LET destroyed == Dtor(s, h)
         IN  Faulted(destroyed) \cup
             UNION { CopyCtor(t, h, other) : t \in Going(destroyed) }
    ELSE { s }

\* A swap that exchanges the managed pointers only.
SwapHandles_pointers_only(s, lhs, rhs) ==
    { SetFields(SetFields(s, lhs, s.m_control_block[lhs], s.m_ptr[rhs]),
                rhs, s.m_control_block[rhs], s.m_ptr[lhs]) }

\* swap(lhs, rhs); the two operands are treated alike, so the caller's
\* swap(b, a) is swap(a, b).
SwapHandles(s, lhs, rhs) ==
    { SetFields(SetFields(s, lhs, s.m_control_block[rhs], s.m_ptr[rhs]),
                rhs, s.m_control_block[lhs], s.m_ptr[lhs]) }

\* Traced::alive_count()
alive_count(s) == Cardinality({ o \in DOMAIN s.obj : s.obj[o] = "alive" })

\* ------------------------------------------------- the sequential program
\* new Traced{}, evaluated by the caller in the statement that hands the
\* object to a handle.
CanNewTraced(s) == \E o \in DOMAIN s.obj : s.obj[o] = "unalloc"
NewTraced(s) ==
    CHOOSE o \in DOMAIN s.obj :
        /\ s.obj[o] = "unalloc"
        /\ \A q \in DOMAIN s.obj : s.obj[q] = "unalloc" => o <= q
Allocated(s, o) == [s EXCEPT !.obj[o] = "alive"]

\* The operation performed, its operands, and what get() of the handle it
\* was called on returned before it ran.
Op(name, h, src, p) ==
    [op |-> name, h |-> h, src |-> src, p |-> p,
     was |-> IF h # NULL /\ live[h] THEN get(S, h) ELSE NULL]

\* std::bad_alloc has left operator=(ptr_t) and is on its way up the caller.
Thrown == last.op = "assign_ptr_bad_alloc"

\* Execution is followed up to and including the first operation that
\* executes undefined behaviour, every outcome of which is a state, and up
\* to the first exception: a throwing operator= leaves the handles as they
\* were before the call, from where every continuation is followed anyway.
Running == ub = {} /\ mode = "seq" /\ ~Thrown

DefaultConstruct(h) ==
    /\ Running /\ ~live[h]
    /\ \E t \in EmptyCtor(S, h) : Put(t)
    /\ last' = Op("empty_ctor", h, NULL, NULL)
    /\ UNCHANGED tvars

\* SharedPtr<Traced> sut{new Traced{}, deleter} and SharedPtr<Traced> sut{p}
\* with a null Traced* p.  The caller has one custom deleter (the test's
\* lambda) and constructs with it once.  A constructor whose allocation
\* throws constructs no handle: handles are constructed while the heap has a
\* block to hand out.
Construct(h, fn, fresh) ==
    /\ Running /\ ~live[h] /\ CanAllocate(S)
    /\ fn = "custom" => \A b \in Blocks : m_deleter[b].fn # "custom"
    /\ fresh => CanNewTraced(S)
    /\ LET p == IF fresh THEN NewTraced(S) ELSE NULL
           s0 == IF fresh THEN Allocated(S, p) ELSE S
       IN  /\ \E t \in OwningCtor(s0, h, p, fn) : Put(t)
           /\ last' = Op("owning_ctor", h, NULL, p)
    /\ UNCHANGED tvars

CopyConstruct(h, other) ==
    /\ Running /\ ~live[h] /\ live[other]
    /\ \E t \in CopyCtor(S, h, other) : Put(t)
    /\ last' = Op("copy_ctor", h, other, NULL)
    /\ UNCHANGED tvars

MoveConstruct(h, other) ==
    /\ Running /\ ~live[h] /\ live[other]
    /\ \E t \in MoveCtor(S, h, other) : Put(t)
    /\ last' = Op("move_ctor", h, other, NULL)
    /\ UNCHANGED tvars

\* SharedPtr<const Traced> sut2{sut} and SharedPtr<const Traced>
\* sut2{std::move(sut)}.
ConvertCopy(h, other) ==
    /\ Running /\ ~live[h] /\ live[other]
    /\ \E t \in ConstCopyCtor(S, h, other) : Put(t)
    /\ last' = Op("const_copy_ctor", h, other, NULL)
    /\ UNCHANGED tvars

ConvertMove(h, other) ==
    /\ Running /\ ~live[h] /\ live[other]
    /\ \E t \in ConstMoveCtor(S, h, other) : Put(t)
    /\ last' = Op("const_move_ctor", h, other, NULL)
    /\ UNCHANGED tvars

Reset(h) ==
    /\ Running /\ live[h]
    /\ \E t \in reset(S, h) : Put(t)
    /\ last' = Op("reset", h, NULL, NULL)
    /\ UNCHANGED tvars

AssignNull(h) ==
    /\ Running /\ live[h]
    /\ \E t \in AssignNullptr(S, h) : Put(t)
    /\ last' = Op("assign_null", h, NULL, NULL)
    /\ UNCHANGED tvars

\* sut = new Traced{}, sut = p with a null Traced* p, and sut = sut.get().
\* When the allocation inside operator= throws, the exception reaches the
\* caller; the object it had made for the assignment stays allocated.
AssignRaw(h, kind) ==
    /\ Running /\ live[h]
    /\ kind = "new" => CanNewTraced(S)
    /\ LET p == IF kind = "new" THEN NewTraced(S)
                ELSE IF kind = "own" THEN get(S, h) ELSE NULL
           s0 == IF kind = "new" THEN Allocated(S, p) ELSE S
       IN  /\ \E t \in AssignPtr(s0, h, p) : Put(t)
           /\ last' = Op(IF get(S, h) # p /\ BadAlloc(S)
                         THEN "assign_ptr_bad_alloc" ELSE "assign_ptr",
                         h, NULL, p)
    /\ UNCHANGED tvars

Assign(h, other) ==
    /\ Running /\ live[h] /\ live[other]
    /\ \E t \in AssignHandle(S, h, other) : Put(t)
    /\ last' = Op("assign", h, other, NULL)
    /\ UNCHANGED tvars

Swap(a, b) ==
    /\ Running /\ live[a] /\ live[b] /\ a <= b
    /\ \E t \in SwapHandles(S, a, b) : Put(t)
    /\ last' = Op("swap", a, b, NULL)
    /\ UNCHANGED tvars

Destroy(h) ==
    /\ Running /\ live[h]
    /\ \E t \in Dtor(S, h) : Put(t)
    /\ last' = Op("dtor", h, NULL, NULL)
    /\ UNCHANGED tvars

InitHeap(slots) ==
    /\ live = [h \in slots |-> FALSE]
    /\ m_control_block = [h \in slots |-> NULL]
    /\ m_ptr = [h \in slots |-> NULL]
    /\ blk = [b \in Blocks |-> "unalloc"]
    /\ m_count = [b \in Blocks |-> 0]
    /\ m_deleter = [b \in Blocks |-> make_deleter("default_delete", NULL)]
    /\ deleter_runs = [b \in Blocks |-> 0]
    /\ frees = [b \in Blocks |-> 0]
    /\ obj = [o \in Objs |-> "unalloc"]
    /\ ub = {}
    /\ crashed = FALSE

Init ==
    /\ InitHeap(Slots)
    /\ last = Op("init", NULL, NULL, NULL)
    /\ pc = << >> /\ cur = << >> /\ prior = << >> /\ iter = << >>
    /\ mode = "seq"

Next ==
    \/ \E h \in Slots : DefaultConstruct(h)
    \/ \E h \in Slots, fn \in DeleterFns, fresh \in BOOLEAN :
           Construct(h, fn, fresh)
    \/ \E h, other \in Slots : CopyConstruct(h, other)
    \/ \E h, other \in Slots : MoveConstruct(h, other)
    \/ \E h, other \in Slots : ConvertCopy(h, other)
    \/ \E h, other \in Slots : ConvertMove(h, other)
    \/ \E h \in Slots : Reset(h)
    \/ \E h \in Slots : AssignNull(h)
    \/ \E h \in Slots, kind \in {"new", "null", "own"} : AssignRaw(h, kind)
    \/ \E h, other \in Slots : Assign(h, other)
    \/ \E a, b \in Slots : Swap(a, b)
    \/ \E h \in Slots : Destroy(h)

Spec == Init /\ [][Next]_vars

\* --------------------------------------------------- the threaded program
\* The main thread (0) holds `sut`.  A worker thread runs the test's loop,
\*     for (i < MaxIter) { SharedPtr<Traced> sut2{src}; }
\* Only m_count is touched by more than one thread, through the atomic
\* operations of ControlBlock; every other step of a method works on the
\* thread's own handle and is merged with the atomic step it follows.
\*   "join": the test's run.  src is `sut`, which the main thread keeps
\*           until every worker has finished.
\*   "race": every worker captured a copy of `sut` of its own before the
\*           threads started; src is that copy, destroyed when the thread
\*           function returns, and the main thread destroys `sut` with no
\*           order against the workers.
Main    == 0
Workers == 1..NumThreads
Threads == {Main} \cup Workers
Sut     == 1
Own(t)   == 2 * t
Local(t) == 2 * t + 1
Held(t)  == IF t = Main THEN {Sut} ELSE {Own(t), Local(t)}
TSlots  == 1..(2 * NumThreads + 1)
TheBlock  == 1
TheObject == 1

Active == ub = {} /\ mode # "seq"
Joined == \A w \in Workers : pc[w] = "done"

\* The test of the earlier destructors, which read the counter again after
\* decrementing it: if (!m_control_block->m_count).
IsLastOwner_reread(t, b) == m_count[b] = 0

\* A test that takes every release for the last one:
\* if (count_prior_to_decrement).
IsLastOwner_nonzero(t, b) == prior[t] >= 1

\* if (1 == count_prior_to_decrement)
IsLastOwner(t, b) == 1 = prior[t]

\* SharedPtr sut2{src}: the member initialisers.
T_CopyInit(t) ==
    /\ Active /\ t \in Workers /\ pc[t] = "idle" /\ iter[t] > 0
    /\ ~live[Local(t)]
    /\ LET src == IF mode = "join" THEN Sut ELSE Own(t)
       IN  Put(SetFields([S EXCEPT !.live[Local(t)] = TRUE], Local(t),
                         m_control_block[src], m_ptr[src]))
    /\ pc' = [pc EXCEPT ![t] = "increment_count"]
    /\ cur' = [cur EXCEPT ![t] = Local(t)]
    /\ iter' = [iter EXCEPT ![t] = @ - 1]
    /\ UNCHANGED <<prior, mode, last>>

\* ... and the constructor's body, m_control_block->increment_count().
T_Increment(t) ==
    /\ Active /\ pc[t] = "increment_count"
    /\ \E s \in increment_count(S, m_control_block[cur[t]]) : Put(s)
    /\ pc' = [pc EXCEPT ![t] = "idle"]
    /\ cur' = [cur EXCEPT ![t] = NULL]
    /\ UNCHANGED <<prior, iter, mode, last>>

\* ~SharedPtr() -> reset(): the test of m_control_block and fetch_sub_1().
\* An empty handle's destructor is over at once.  sut2 is destroyed at the
\* end of the loop body, the captured copy when the loop is over, and `sut`
\* when the main thread likes ("race") or after the join.
T_FetchSub(t, h) ==
    /\ Active /\ pc[t] = "idle" /\ h \in Held(t) /\ live[h]
    /\ t = Main => (mode = "race" \/ Joined)
    /\ (t # Main /\ h = Own(t)) => (iter[t] = 0 /\ ~live[Local(t)])
    /\ IF m_control_block[h] # NULL
       THEN \E r \in fetch_sub_1(S, m_control_block[h]) :
                /\ Put(r.s)
                /\ prior' = [prior EXCEPT ![t] = r.prior]
                /\ pc' = [pc EXCEPT ![t] = "check"]
       ELSE /\ Put([S EXCEPT !.live[h] = FALSE])
            /\ UNCHANGED <<prior, pc>>
    /\ cur' = [cur EXCEPT ![t] = h]
    /\ UNCHANGED <<iter, mode, last>>

\* if (1 == count_prior_to_decrement): otherwise reset() returns and the
\* destructor ends.
T_Check(t) ==
    /\ Active /\ pc[t] = "check"
    /\ IF IsLastOwner(t, m_control_block[cur[t]])
       THEN /\ pc' = [pc EXCEPT ![t] = "delete_owned"]
            /\ UNCHANGED hvars
            /\ UNCHANGED <<cur, prior>>
       ELSE /\ pc' = [pc EXCEPT ![t] = "idle"]
            /\ Put(SetFields([S EXCEPT !.live[cur[t]] = FALSE], cur[t],
                             NULL, NULL))
            /\ cur' = [cur EXCEPT ![t] = NULL]
            /\ prior' = [prior EXCEPT ![t] = 0]
    /\ UNCHANGED <<iter, mode, last>>

\* m_control_block->delete_owned()
T_DeleteOwned(t) ==
    /\ Active /\ pc[t] = "delete_owned"
    /\ \E s \in delete_owned(S, m_control_block[cur[t]]) : Put(s)
    /\ pc' = [pc EXCEPT ![t] = "delete_block"]
    /\ UNCHANGED <<cur, prior, iter, mode, last>>

\* delete m_control_block; both fields set to nullptr; the destructor ends.
T_DeleteBlock(t) ==
    /\ Active /\ pc[t] = "delete_block"
    /\ \E s \in DeleteBlock(S, m_control_block[cur[t]]) :
           Put(IF s.crashed THEN s
               ELSE SetFields([s EXCEPT !.live[cur[t]] = FALSE], cur[t],
                              NULL, NULL))
    /\ pc' = [pc EXCEPT ![t] = "idle"]
    /\ cur' = [cur EXCEPT ![t] = NULL]
    /\ prior' = [prior EXCEPT ![t] = 0]
    /\ UNCHANGED <<iter, mode, last>>

\* The thread function returns: its handles are gone.
T_Finish(t) ==
    /\ Active /\ t \in Workers /\ pc[t] = "idle" /\ iter[t] = 0
    /\ \A h \in Held(t) : ~live[h]
    /\ pc' = [pc EXCEPT ![t] = "done"]
    /\ UNCHANGED hvars
    /\ UNCHANGED <<cur, prior, iter, mode, last>>

\* The state the threads start from: `sut` constructed from new Traced{},
\* and in a "race" one copy of it per worker.
InitThreads ==
    /\ mode \in {"join", "race"}
    /\ LET owners == IF mode = "race" THEN {Sut} \cup {Own(w) : w \in Workers}
                     ELSE {Sut}
       IN  /\ live = [h \in TSlots |-> h \in owners]
           /\ m_control_block =
                  [h \in TSlots |-> IF h \in owners THEN TheBlock ELSE NULL]
           /\ m_ptr = [h \in TSlots |-> IF h \in owners THEN TheObject ELSE NULL]
           /\ m_count = [b \in Blocks |->
                            IF b = TheBlock THEN Cardinality(owners) ELSE 0]
    /\ blk = [b \in Blocks |-> IF b = TheBlock THEN "live" ELSE "unalloc"]
    /\ m_deleter = [b \in Blocks |->
                       make_deleter("default_delete",
                                    IF b = TheBlock THEN TheObject ELSE NULL)]
    /\ deleter_runs = [b \in Blocks |-> 0]
    /\ frees = [b \in Blocks |-> 0]
    /\ obj = [o \in Objs |-> IF o = TheObject THEN "alive" ELSE "unalloc"]
    /\ ub = {}
    /\ crashed = FALSE
    /\ last = Op("init", NULL, NULL, NULL)
    /\ pc = [t \in Threads |-> "idle"]
    /\ cur = [t \in Threads |-> NULL]
    /\ prior = [t \in Threads |-> 0]
    /\ iter = [t \in Threads |-> IF t = Main THEN 0 ELSE MaxIter]

NextThreads ==
    \/ \E t \in Threads : T_CopyInit(t)
    \/ \E t \in Threads : T_Increment(t)
    \/ \E t \in Threads : \E h \in Held(t) : T_FetchSub(t, h)
    \/ \E t \in Threads : T_Check(t)
    \/ \E t \in Threads : T_DeleteOwned(t)
    \/ \E t \in Threads : T_DeleteBlock(t)
    \/ \E t \in Threads : T_Finish(t)

SpecThreads == InitThreads /\ [][NextThreads]_vars

\* ------------------------------------------- the earlier iterations' threads
\* src/unnamed/part_000 and part_002: the destructor decrements the counter
\* and reads it again in a separate step,
\*     --m_control_block->m_count;  if (!m_control_block->m_count) { ... }
\* The copy constructor (++m_control_block->m_count) and the deleting branch
\* are those of the final version.  The threads are those of "race" above:
\* every thread holds a handle of its own to the one block, the workers copy
\* theirs in a loop, and every handle is destroyed with no order against the
\* other threads.

\* --m_control_block->m_count (an atomic decrement); a handle without a
\* control block (part_002: moved-from) is destroyed at once.
E_Decrement(t, h) ==
    /\ Active /\ pc[t] = "idle" /\ h \in Held(t) /\ live[h]
    /\ (t # Main /\ h = Own(t)) => (iter[t] = 0 /\ ~live[Local(t)])
    /\ LET b == m_control_block[h] IN
       IF b # NULL
       THEN /\ Put([S EXCEPT !.m_count[b] = @ - 1])
            /\ pc' = [pc EXCEPT ![t] = "load"]
       ELSE /\ Put([S EXCEPT !.live[h] = FALSE])
            /\ UNCHANGED pc
    /\ cur' = [cur EXCEPT ![t] = h]
    /\ UNCHANGED <<prior, iter, mode, last>>

\* if (!m_control_block->m_count): the counter is read again.  When another
\* thread has freed the block in between, the read is of freed memory.
E_Load(t) ==
    /\ Active /\ pc[t] = "load"
    /\ LET b == m_control_block[cur[t]]
           gone == SetFields([S EXCEPT !.live[cur[t]] = FALSE], cur[t],
                             NULL, NULL)
       IN  \E c \in get_count(S, b) :
           \E s \in (IF blk[b] = "live" THEN { S }
                     ELSE Undefined(S, "use_after_free", S)) :
               IF s.crashed \/ c = 0
               THEN /\ Put(s)
                    /\ pc' = [pc EXCEPT ![t] = IF s.crashed THEN "load"
                                               ELSE "delete_owned"]
                    /\ UNCHANGED cur
               ELSE /\ Put([gone EXCEPT !.ub = s.ub])
                    /\ pc' = [pc EXCEPT ![t] = "idle"]
                    /\ cur' = [cur EXCEPT ![t] = NULL]
    /\ UNCHANGED <<prior, iter, mode, last>>

\* One handle per thread shares the block, as after SharedPtr<Traced>
\* sut{new Traced{}} and one copy of it per worker.
InitEarly ==
    /\ mode = "early"
    /\ LET owners == {Sut} \cup {Own(w) : w \in Workers}
       IN  /\ live = [h \in TSlots |-> h \in owners]
           /\ m_control_block =
                  [h \in TSlots |-> IF h \in owners THEN TheBlock ELSE NULL]
           /\ m_ptr = [h \in TSlots |-> IF h \in owners THEN TheObject ELSE NULL]
           /\ m_count = [b \in Blocks |->
                            IF b = TheBlock THEN Cardinality(owners) ELSE 0]
    /\ blk = [b \in Blocks |-> IF b = TheBlock THEN "live" ELSE "unalloc"]
    /\ m_deleter = [b \in Blocks |->
                       make_deleter("default_delete",
                                    IF b = TheBlock THEN TheObject ELSE NULL)]
    /\ deleter_runs = [b \in Blocks |-> 0]
    /\ frees = [b \in Blocks |-> 0]
    /\ obj = [o \in Objs |-> IF o = TheObject THEN "alive" ELSE "unalloc"]
    /\ ub = {}
    /\ crashed = FALSE
    /\ last = Op("init", NULL, NULL, NULL)
    /\ pc = [t \in Threads |-> "idle"]
    /\ cur = [t \in Threads |-> NULL]
    /\ prior = [t \in Threads |-> 0]
    /\ iter = [t \in Threads |-> IF t = Main THEN 0 ELSE MaxIter]

NextEarly ==
    \/ \E t \in Threads : T_CopyInit(t)
    \/ \E t \in Threads : T_Increment(t)
    \/ \E t \in Threads : \E h \in Held(t) : E_Decrement(t, h)
    \/ \E t \in Threads : E_Load(t)
    \/ \E t \in Threads : T_DeleteOwned(t)
    \/ \E t \in Threads : T_DeleteBlock(t)
    \/ \E t \in Threads : T_Finish(t)

SpecEarly == InitEarly /\ [][NextEarly]_vars

\* ------------------------------------------------ the counter on its own
\* increment_count() and decrement_count() called on live control blocks
\* with any count up to MaxCount; no handle is involved.  `last` records the
\* call, the block it was made on and the block's count before it.
Call(name, b) ==
    [op |-> name, h |-> b, src |-> NULL, p |-> NULL, was |-> m_count[b]]

U_Increment(b) ==
    /\ mode = "unit" /\ ub = {} /\ m_count[b] < MaxCount
    /\ \E t \in increment_count(S, b) : Put(t)
    /\ last' = Call("increment_count", b)
    /\ UNCHANGED tvars

U_Decrement(b) ==
    /\ mode = "unit" /\ ub = {} /\ m_count[b] < MaxCount
    /\ \E t \in decrement_count(S, b) : Put(t)
    /\ last' = Call("decrement_count", b)
    /\ UNCHANGED tvars

InitCount ==
    /\ mode = "unit"
    /\ live = [h \in Slots |-> FALSE]
    /\ m_control_block = [h \in Slots |-> NULL]
    /\ m_ptr = [h \in Slots |-> NULL]
    /\ blk = [b \in Blocks |-> "live"]
    /\ m_count \in [Blocks -> 0..MaxCount]
    /\ m_deleter = [b \in Blocks |-> make_deleter("default_delete", NULL)]
    /\ deleter_runs = [b \in Blocks |-> 0]
    /\ frees = [b \in Blocks |-> 0]
    /\ obj = [o \in Objs |-> "unalloc"]
    /\ ub = {}
    /\ crashed = FALSE
    /\ last = Op("init", NULL, NULL, NULL)
    /\ pc = << >> /\ cur = << >> /\ prior = << >> /\ iter = << >>

NextCount ==
    \/ \E b \in Blocks : U_Increment(b)
    \/ \E b \in Blocks : U_Decrement(b)

SpecCount == InitCount /\ [][NextCount]_vars

\* ------------------------------------------------------------------ claims
Owners(b) == { g \in DOMAIN live : live[g] /\ m_control_block[g] = b }
Deleting(t) == pc[t] \in {"delete_owned", "delete_block"}

\* C1: however the threads' copies and destructions of handles to one block
\* interleave, the block's deleter runs at most once, the block is freed at
\* most once, and a thread runs the deleter or frees the block only if its
\* own fetch_sub_1() returned 1.
C1_DeletedOnceByLastOwner ==
    /\ \A b \in Blocks : deleter_runs[b] <= 1 /\ frees[b] <= 1
    /\ \A t \in Threads : Deleting(t) => prior[t] = 1
    /\ Cardinality({ t \in Threads : Deleting(t) }) <= 1
    /\ ub = {}

\* Every thread has made its copies and destroyed its handles, concurrently
\* with the others, and the block has been finalised.
C1_Witness ==
    /\ mode = "race" /\ Joined /\ ~live[Sut]
    /\ \A w \in Workers : iter[w] = 0
    /\ deleter_runs[TheBlock] = 1 /\ frees[TheBlock] = 1

\* C2: in the test's run (`sut` has use_count() 1 and stays alive while the
\* workers copy it and destroy the copies), the object is not deleted while
\* the workers run, and once they have all finished sut.use_count() is 1.
C2_CountRestoredAfterJoin ==
    (mode = "join" /\ live[Sut] /\ pc[Main] = "idle") =>
        /\ obj[TheObject] = "alive" /\ blk[TheBlock] = "live"
        /\ deleter_runs[TheBlock] = 0 /\ ub = {}
        /\ m_count[TheBlock] >= 1
        /\ Joined => use_count(S, Sut) = {1}

C2_Witness ==
    /\ mode = "join" /\ Joined /\ live[Sut] /\ pc[Main] = "idle"
    /\ \A w \in Workers : iter[w] = 0

\* C3: no live handle returns from get() the address of an object that has
\* been deleted.
C3_NoLiveHandleToDeleted ==
    \A h \in DOMAIN live :
        (live[h] /\ m_ptr[h] # NULL) => obj[m_ptr[h]] = "alive"

\* C4: a block's deleter runs exactly once, when the block is freed, and
\* once every handle is destroyed no object handed to a handle is alive.
C4_DeletedExactlyOnceNoLeak ==
    /\ \A b \in Blocks : deleter_runs[b] <= 1
    /\ \A b \in Blocks : (blk[b] = "freed" /\ ~crashed) => deleter_runs[b] = 1
    /\ (\A h \in DOMAIN live : ~live[h]) =>
           \A o \in Objs : obj[o] # "alive"

\* C5: use_count() of a non-empty handle is the number of live handles that
\* reference its control block.
C5_UseCountIsOwners ==
    \A h \in DOMAIN live :
        (live[h] /\ m_control_block[h] # NULL) =>
            use_count(S, h) = { Cardinality(Owners(m_control_block[h])) }

\* C6: for every handle, use_count() is 0 exactly if get() is null, and the
\* raw pointer is null exactly if the control-block reference is null.
C6_EmptyIffNull ==
    \A h \in DOMAIN live :
        live[h] =>
            /\ (use_count(S, h) = {0}) <=> (get(S, h) = NULL)
            /\ (m_ptr[h] = NULL) <=> (m_control_block[h] = NULL)

\* C7: after reset() and after h = nullptr, the handle is empty: get() is
\* null and use_count() is 0.
C7_ResetEmpties ==
    (last.op \in {"reset", "assign_null"} /\ ~crashed) =>
        /\ get(S, last.h) = NULL
        /\ use_count(S, last.h) = {0}

\* C8: copy-constructing from an empty handle yields an empty handle and
\* goes through no control block.
C8_CopyOfEmptyIsEmpty ==
    (last.op = "copy_ctor" /\ m_control_block[last.src] = NULL) =>
        /\ ub = {}
        /\ live[last.h]
        /\ m_control_block[last.h] = NULL /\ m_ptr[last.h] = NULL

\* C9: a = b for handles whose managed addresses differ: afterwards a has
\* b's pointer and block, b's count has grown by one if b is non-empty, a's
\* former block has lost one reference and its object is deleted exactly if
\* a was its last owner, and b is unchanged.
C9_AssignStep ==
    LET a == last'.h
        b == last'.src
        ba == m_control_block[a]
        bb == m_control_block[b]
    IN  (last'.op = "assign" /\ m_ptr[a] # m_ptr[b]) =>
            /\ ub' = {}
            /\ m_ptr'[a] = m_ptr[b] /\ m_control_block'[a] = bb
            /\ m_ptr'[b] = m_ptr[b] /\ m_control_block'[b] = bb
            /\ bb # NULL => m_count'[bb] = m_count[bb] + 1
            /\ ba # NULL =>
                   IF m_count[ba] = 1
                   THEN blk'[ba] = "freed" /\ deleter_runs'[ba] = 1
                   ELSE /\ m_count'[ba] = m_count[ba] - 1
                        /\ blk'[ba] = blk[ba]
                        /\ deleter_runs'[ba] = deleter_runs[ba]
C9_AssignReplaces == [][C9_AssignStep]_vars

\* C10: h = h, and h = g for a handle g that manages the same address,
\* changes no handle, no counter and no object, and runs no deleter.
C10_SameAddressAssignIsNoOp ==
    [][(last'.op = "assign" /\ m_ptr[last'.h] = m_ptr[last'.src])
           => UNCHANGED hvars]_vars

\* h = g was executed for two handles sharing one object.
C10_Witness ==
    /\ last.op = "assign" /\ last.h # last.src
    /\ last.was # NULL /\ last.was = m_ptr[last.src]
    /\ m_ptr[last.h] = last.was
    /\ use_count(S, last.h) = {2}

\* C11: when the allocation of the new control block in h = raw_pointer
\* fails, the exception reaches the caller with every handle's pointer and
\* control block, every block and its count, and every object that existed
\* before the call as they were: nothing was released before the allocation.
C11_FailedAssignStep ==
    last'.op = "assign_ptr_bad_alloc" =>
        /\ m_ptr' = m_ptr /\ m_control_block' = m_control_block
        /\ live' = live
        /\ m_count' = m_count /\ blk' = blk
        /\ deleter_runs' = deleter_runs /\ frees' = frees
        /\ \A o \in Objs : obj[o] # "unalloc" => obj'[o] = obj[o]
        /\ ub' = {} /\ ~crashed'
C11_FailedAssignKeepsOwnership == [][C11_FailedAssignStep]_vars

\* h = new Traced{} threw for a handle that is the only owner of an object:
\* the object is alive and h still owns it with count 1.
C11_Witness ==
    /\ Thrown /\ last.p # NULL
    /\ last.was # NULL /\ last.was # last.p
    /\ m_ptr[last.h] = last.was /\ obj[last.was] = "alive"
    /\ use_count(S, last.h) = {1}
    /\ BadAlloc(S)

\* C12: move construction hands the source's pointer and control block to
\* the new handle and leaves the source empty; it changes no count, frees no
\* block, deletes no object and runs no deleter.  Destroying the moved-from
\* source right afterwards changes no count, block or object either.
C12_MoveStep ==
    /\ last'.op = "move_ctor" =>
           /\ m_ptr'[last'.h] = m_ptr[last'.src]
           /\ m_control_block'[last'.h] = m_control_block[last'.src]
           /\ m_ptr'[last'.src] = NULL
           /\ m_control_block'[last'.src] = NULL
           /\ live'[last'.h] /\ live'[last'.src]
           /\ m_count' = m_count /\ blk' = blk /\ obj' = obj
           /\ deleter_runs' = deleter_runs /\ frees' = frees
           /\ ub' = {} /\ ~crashed'
    /\ (last.op = "move_ctor" /\ last'.op = "dtor" /\ last'.h = last.src) =>
           /\ m_count' = m_count /\ blk' = blk /\ obj' = obj
           /\ deleter_runs' = deleter_runs /\ frees' = frees
           /\ m_ptr'[last.h] = m_ptr[last.h]
           /\ m_control_block'[last.h] = m_control_block[last.h]
           /\ ub' = {} /\ ~crashed'
C12_MoveTransfersOwnership == [][C12_MoveStep]_vars

\* A handle owning a live object alone was moved from: the new handle owns
\* it with count 1 and the source reports get() null and use_count() 0.
C12_Witness ==
    /\ last.op = "move_ctor"
    /\ m_ptr[last.h] # NULL /\ obj[m_ptr[last.h]] = "alive"
    /\ use_count(S, last.h) = {1}
    /\ live[last.src]
    /\ get(S, last.src) = NULL /\ use_count(S, last.src) = {0}

\* C13: swap(a, b), for any two handles and for a handle with itself,
\* exchanges the handles' pointers and control-block references (so each
\* has the other's former get() and use_count()), and changes no other
\* handle, no count, no block and no object, and runs no deleter.
C13_SwapStep ==
    last'.op = "swap" =>
        /\ m_ptr'[last'.h] = m_ptr[last'.src]
        /\ m_ptr'[last'.src] = m_ptr[last'.h]
        /\ m_control_block'[last'.h] = m_control_block[last'.src]
        /\ m_control_block'[last'.src] = m_control_block[last'.h]
        /\ \A g \in Slots \ {last'.h, last'.src} :
               m_ptr'[g] = m_ptr[g] /\ m_control_block'[g] = m_control_block[g]
        /\ live' = live
        /\ m_count' = m_count /\ blk' = blk /\ obj' = obj
        /\ deleter_runs' = deleter_runs /\ frees' = frees
        /\ ub' = {} /\ ~crashed'
C13_SwapExchanges == [][C13_SwapStep]_vars

\* The test's scenario: two handles owning two live objects were swapped;
\* each now has the other's object with use_count() 1 and both are alive.
C13_Witness ==
    /\ last.op = "swap" /\ last.h # last.src
    /\ m_ptr[last.h] # NULL /\ m_ptr[last.src] # NULL
    /\ m_ptr[last.src] = last.was /\ m_ptr[last.h] # last.was
    /\ use_count(S, last.h) = {1} /\ use_count(S, last.src) = {1}
    /\ alive_count(S) = 2

\* C14: the custom deleter handed to an owning constructor stays bound to
\* the constructor's pointer, is not run while a live handle references its
\* block, and has run exactly once when no live handle references the block
\* any more.
C14_CustomDeleterOnceAtLastOwner ==
    \A b \in Blocks :
        (blk[b] # "unalloc" /\ m_deleter[b].fn = "custom") =>
            /\ deleter_runs[b] <= 1
            /\ Owners(b) # {} => deleter_runs[b] = 0
            /\ (Owners(b) = {} /\ ~crashed) => deleter_runs[b] = 1
            /\ m_deleter[b].ptr # NULL =>
                   obj[m_deleter[b].ptr] =
                       (IF deleter_runs[b] = 0 THEN "alive" ELSE "deleted")

\* C15: constructing a handle to const from a mutable handle allocates no
\* block and no object.  By copy, the new handle has the source's pointer
\* and block, the source keeps them, and the block's count grows by one; by
\* move, the new handle takes the pointer and the block, no count changes
\* and the source becomes empty.
C15_ConvertStep ==
    LET h == last'.h
        src == last'.src
        b == m_control_block[src]
    IN  /\ last'.op \in {"const_copy_ctor", "const_move_ctor"} =>
               /\ ub' = {} /\ ~crashed'
               /\ blk' = blk /\ obj' = obj
               /\ deleter_runs' = deleter_runs /\ frees' = frees
               /\ m_ptr'[h] = m_ptr[src] /\ m_control_block'[h] = b
        /\ last'.op = "const_copy_ctor" =>
               /\ m_ptr'[src] = m_ptr[src] /\ m_control_block'[src] = b
               /\ \A c \in Blocks :
                      m_count'[c] = m_count[c] + (IF c = b THEN 1 ELSE 0)
        /\ last'.op = "const_move_ctor" =>
               /\ m_ptr'[src] = NULL /\ m_control_block'[src] = NULL
               /\ m_count' = m_count
C15_ConstConversionShares == [][C15_ConvertStep]_vars

\* C16: when every raw pointer is handed to at most one owning construction
\* or raw-pointer assignment (the caller hands over only objects it has just
\* made, null, and h = h.get()), no operation reads, writes or frees a
\* control block that has been freed, and no object is deleted twice.
C16_NoUseOfFreedBlock ==
    ub \cap {"use_after_free", "double_free", "double_delete"} = {}

\* C17: reset() is idempotent: a reset() of a handle that directly follows
\* a reset() of the same handle changes no handle, no count, no block and
\* no object.
C17_SecondResetStep ==
    (last.op = "reset" /\ last'.op = "reset" /\ last'.h = last.h) =>
        UNCHANGED hvars
C17_ResetIdempotent == [][C17_SecondResetStep]_vars

\* C18: assigning a handle the raw pointer it already manages, h = h.get(),
\* allocates no control block and changes no handle, no count, no block and
\* no object.
C18_OwnPointerAssignStep ==
    (last'.op \in {"assign_ptr", "assign_ptr_bad_alloc"}
         /\ last'.p = m_ptr[last'.h]) =>
        /\ UNCHANGED hvars
        /\ last'.op = "assign_ptr"
C19_AssignPtrStep ==
    LET h == last'.h
        p == last'.p
        old == m_control_block[h]
        new == m_control_block'[h]
    IN  (last'.op = "assign_ptr" /\ p # NULL /\ p # m_ptr[h]) =>
            /\ ub' = {} /\ ~crashed'
            /\ m_ptr'[h] = p
            /\ new # NULL /\ blk[new] = "unalloc" /\ blk'[new] = "live"
            /\ m_count'[new] = 1
            /\ m_deleter'[new] = make_deleter("default_delete", p)
            /\ obj'[p] = "alive"
            /\ \A g \in Slots \ {h} :
                   m_ptr'[g] = m_ptr[g] /\ m_control_block'[g] = m_control_block[g]
            /\ \A c \in Blocks \ {old, new} :
                   m_count'[c] = m_count[c] /\ blk'[c] = blk[c]
            /\ old # NULL =>
                   IF m_count[old] = 1
                   THEN /\ blk'[old] = "freed"
                        /\ deleter_runs'[old] = 1
                        /\ m_deleter[old].ptr # NULL =>
                               obj'[m_deleter[old].ptr] = "deleted"
                   ELSE /\ m_count'[old] = m_count[old] - 1
                        /\ blk'[old] = blk[old]
                        /\ deleter_runs'[old] = deleter_runs[old]
                        /\ m_ptr[h] # NULL => obj'[m_ptr[h]] = obj[m_ptr[h]]
C19_AssignPtrReplaces == [][C19_AssignPtrStep]_vars

\* The threads that have done the fetch_sub_1() of their handle's reset()
\* and have not left reset() yet.
Released(g) ==
    \E t \in Threads :
        cur[t] = g /\ pc[t] \in {"check", "delete_owned", "delete_block"}

\* C20: in every interleaving, while a thread runs the deleter or frees the
\* block, and once the object is deleted or the block freed, every other
\* handle that references the block has had its fetch_sub_1(): no owner's
\* release is still to come, and the count is 0.
C20_DeletionAfterAllReleases ==
    (\/ \E t \in Threads : Deleting(t)
     \/ deleter_runs[TheBlock] > 0
     \/ blk[TheBlock] = "freed") =>
        /\ \A g \in Owners(TheBlock) : Released(g)
        /\ m_count[TheBlock] = 0

\* A worker thread is deleting the object while another thread, whose
\* fetch_sub_1() came earlier, has not yet looked at the value it returned.
C20_Witness ==
    /\ mode = "race"
    /\ \E t \in Workers, u \in Threads :
           /\ t # u
           /\ pc[t] = "delete_block" /\ prior[t] = 1
           /\ pc[u] = "check" /\ prior[u] = 2
    /\ obj[TheObject] = "deleted" /\ blk[TheBlock] = "live"

\* C21: in the earlier iterations, whose destructor decrements the counter
\* and then reads it again, when handles sharing one block are destroyed by
\* different threads at most one thread finds the count zero and enters the
\* deleting branch, and the deleter runs and the block is freed at most once.
C21_EarlyAtMostOneDeletes ==
    mode = "early" =>
        /\ Cardinality({ t \in Threads : Deleting(t) }) <= 1
        /\ deleter_runs[TheBlock] <= 1 /\ frees[TheBlock] <= 1

\* C22: every raw pointer that reaches a handle is a new object's address,
\* null, or the handle's own get().  In every reachable state, two live
\* handles whose get() is the same non-null address (operator== holds)
\* reference the same control block.
C22_EqualHandlesShareBlock ==
    \A g, h \in Slots :
        (live[g] /\ live[h] /\ get(S, g) # NULL /\ Equal(S, g, h)) =>
            m_control_block[g] = m_control_block[h]

\* Two handles share an object and one of them has just been assigned its
\* own get(): both still reference the one block, whose count is 2.
C22_Witness ==
    /\ last.op = "assign_ptr" /\ last.p # NULL /\ last.p = last.was
    /\ \E g \in Slots \ {last.h} :
           /\ live[g] /\ Equal(S, g, last.h)
           /\ m_control_block[g] = m_control_block[last.h]
           /\ m_control_block[g] # NULL
    /\ use_count(S, last.h) = {2}

\* C23: decrement_count() mirrors increment_count(): a decrement_count()
\* that directly follows an increment_count() on the same block leaves the
\* block's count at the value it had before the increment.
C23_DecrementAfterIncrementStep ==
    (last.op = "increment_count" /\ last'.op = "decrement_count"
         /\ last'.h = last.h) =>
        m_count'[last.h] = last.was
C23_DecrementMirrorsIncrement == [][C23_DecrementAfterIncrementStep]_vars

====
